---- MODULE Spec2Model ----
(***************************************************************************)
(* Model of pipecat.audio.turn.base_turn_analyzer: the BaseTurnAnalyzer    *)
(* abstract base class (sample-rate negotiation) together with a concrete  *)
(* analyzer's ingestion state, which the base class only declares.         *)
(***************************************************************************)
EXTENDS Integers, Sequences, FiniteSets, TLC

\* ---------------------------------------------------------------- bounds

\* Most set_sample_rate calls recorded in one behaviour.
MaxCalls == 3
\* Most chunks accumulated between two clear() calls.
MaxChunks == 2

\* ---------------------------------------------------------------- values

\* Optional[int]: None is the empty tuple, an int r is <<r>>.
None == << >>
Some(r) == << r >>

\* Sample rates offered to the constructor and to set_sample_rate.
Rates == {0, 8000, 16000}
OptRates == {None} \cup {Some(r) : r \in Rates}

\* Raw audio chunks (their content is opaque to the contract).
Buffers == {"pcm0", "pcm1"}

\* class EndOfTurnState(Enum)
COMPLETE == 1
INCOMPLETE == 2
EndOfTurnState == {COMPLETE, INCOMPLETE}

\* Python truthiness of an Optional[int]: None and 0 are falsy.
Truthy(x) == x # None /\ x[1] # 0

\* Python's `a or b` for a : Optional[int], b : int.
PyOr(a, b) == IF Truthy(a) THEN a[1] ELSE b

\* ---------------------------------------------------------------- state

VARIABLES
    self,          \* the analyzer object: its attributes
    returned,      \* what the last operation returned (None when nothing)
    lastOp,        \* name of the last operation performed
    prevOp,        \* name of the operation before it
    before,        \* the analyzer object as it was before the last operation
    proposed,      \* arguments of the set_sample_rate calls so far, in order
    firstResolved, \* sample_rate as read right after the first set_sample_rate
    speechSeen     \* an is_speech chunk was appended since construction/clear

vars == << self, returned, lastOp, prevOp, before, proposed, firstResolved,
           speechSeen >>

\* ------------------------------------------------------------ base class

\* Mutant: the effective rate is resolved eagerly at construction.
__init__eager(sample_rate) ==
    [_init_sample_rate |-> sample_rate, _sample_rate |-> PyOr(sample_rate, 0)]

\* BaseTurnAnalyzer.__init__: the two attributes of the base class.
__init__(sample_rate) ==
    [_init_sample_rate |-> sample_rate, _sample_rate |-> 0]

\* BaseTurnAnalyzer.sample_rate (property)
sample_rate(obj) == obj._sample_rate

\* Mutant: the rate is resolved once and cached; later calls are ignored.
set_sample_rate_cached(obj, rate) ==
    IF obj._sample_rate # 0 THEN obj
    ELSE [obj EXCEPT !._sample_rate = PyOr(obj._init_sample_rate, rate)]

\* Mutant: `+=` in place of `=` for a negotiated rate.
set_sample_rate_accumulate(obj, rate) ==
    [obj EXCEPT !._sample_rate =
        PyOr(obj._init_sample_rate, obj._sample_rate + rate)]

\* Mutant: the resolved rate is also stored in _init_sample_rate.
set_sample_rate_latch(obj, rate) ==
    [obj EXCEPT !._sample_rate = PyOr(obj._init_sample_rate, rate),
                !._init_sample_rate = Some(PyOr(obj._init_sample_rate, rate))]

\* Mutant: `is not None` in place of truthiness.
set_sample_rate_not_none(obj, rate) ==
    [obj EXCEPT !._sample_rate =
        IF obj._init_sample_rate # None THEN obj._init_sample_rate[1] ELSE rate]

\* BaseTurnAnalyzer.set_sample_rate
set_sample_rate(obj, rate) ==
    [obj EXCEPT !._sample_rate = PyOr(obj._init_sample_rate, rate)]

\* ------------------------------------------------- concrete turn analyzer
\* The base class declares speech_triggered, params, append_audio,
\* analyze_end_of_turn and clear as abstract; a concrete analyzer adds the
\* ingestion state below to the two base attributes.

\* Construction of a concrete analyzer: the base __init__ plus empty
\* ingestion state.
Analyzer(rate) ==
    __init__(rate) @@ [_speech_triggered |-> FALSE, _audio_buffer |-> << >>]

\* speech_triggered (property)
speech_triggered(obj) == obj._speech_triggered

\* params (property): the analyzer's configuration, here the fixed rate.
params(obj) == obj._init_sample_rate

\* Mutant: any chunk, speech or not, may open the turn.
append_audio_any_chunk(obj, buffer, is_speech, decision) ==
    [obj EXCEPT !._audio_buffer = Append(@, << buffer, is_speech >>),
                !._speech_triggered = @ \/ decision]

\* append_audio: buffers the chunk; a speech chunk may open the turn and a
\* non-speech chunk may close it, as the analyzer's policy (decision) says.
append_audio(obj, buffer, is_speech, decision) ==
    [obj EXCEPT !._audio_buffer = Append(@, << buffer, is_speech >>),
                !._speech_triggered = IF is_speech THEN @ \/ decision
                                                   ELSE @ /\ ~decision]

\* analyze_end_of_turn: judges the accumulated audio; no attribute changes.
analyze_end_of_turn(obj) == obj

\* Mutant: clear() only drops the buffered audio.
clear_buffer_only(obj) ==
    [obj EXCEPT !._audio_buffer = << >>]

\* clear: resets the accumulation, keeps the rates.
clear(obj) ==
    [obj EXCEPT !._audio_buffer = << >>, !._speech_triggered = FALSE]

\* ---------------------------------------------------------------- actions

Init ==
    /\ \E rate \in OptRates : self = Analyzer(rate)
    /\ returned = None
    /\ lastOp = "__init__"
    /\ prevOp = "__init__"
    /\ before = self
    /\ proposed = << >>
    /\ firstResolved = None
    /\ speechSeen = FALSE

\* Bookkeeping common to every operation.
Step(op) ==
    /\ lastOp' = op
    /\ prevOp' = lastOp
    /\ before' = self

SetSampleRate(rate) ==
    /\ Len(proposed) < MaxCalls
    /\ self' = set_sample_rate(self, rate)
    /\ returned' = None
    /\ Step("set_sample_rate")
    /\ proposed' = Append(proposed, rate)
    /\ firstResolved' = IF proposed = << >> THEN Some(sample_rate(self'))
                                             ELSE firstResolved
    /\ UNCHANGED speechSeen

AppendAudio(buffer, is_speech, decision, verdict) ==
    /\ Len(self._audio_buffer) < MaxChunks
    /\ self' = append_audio(self, buffer, is_speech, decision)
    /\ returned' = Some(verdict)
    /\ Step("append_audio")
    /\ speechSeen' = (speechSeen \/ is_speech)
    /\ UNCHANGED << proposed, firstResolved >>

\* The judgment either yields a state (with or without metrics) or fails;
\* a failure is returned here as None.
AnalyzeEndOfTurn(outcome) ==
    /\ self' = analyze_end_of_turn(self)
    /\ returned' = outcome
    /\ Step("analyze_end_of_turn")
    /\ UNCHANGED << proposed, firstResolved, speechSeen >>

Clear ==
    /\ self' = clear(self)
    /\ returned' = None
    /\ Step("clear")
    /\ speechSeen' = FALSE
    /\ UNCHANGED << proposed, firstResolved >>

\* Reading the sample_rate, speech_triggered and params properties.
ReadProperties ==
    /\ self' = self
    /\ returned' = << sample_rate(self), speech_triggered(self), params(self) >>
    /\ Step("read")
    /\ UNCHANGED << proposed, firstResolved, speechSeen >>

Next ==
    \/ \E rate \in Rates : SetSampleRate(rate)
    \/ \E buffer \in Buffers, is_speech \in BOOLEAN, decision \in BOOLEAN,
          verdict \in EndOfTurnState :
          AppendAudio(buffer, is_speech, decision, verdict)
    \/ \E outcome \in {None} \cup {Some(s) : s \in EndOfTurnState} :
          AnalyzeEndOfTurn(outcome)
    \/ Clear
    \/ ReadProperties

Spec == Init /\ [][Next]_vars

\* ----------------------------------------------------------- properties

\* The rate fixed at construction (None when none was given) and the rate
\* proposed by the most recent set_sample_rate call.
FixedRate == self._init_sample_rate
LastProposed == proposed[Len(proposed)]
Negotiated == proposed # << >>

\* C1 (as stated): for an analyzer constructed with a fixed sample rate r,
\* sample_rate returns r after any number of set_sample_rate calls, whatever
\* rates were proposed.
C1_FixedRateAlwaysWins ==
    (FixedRate # None /\ Negotiated) => sample_rate(self) = FixedRate[1]

\* C2: for an analyzer constructed without a fixed rate, sample_rate returns
\* exactly p right after set_sample_rate(p).
C2_NoFixedRateTakesProposed ==
    (FixedRate = None /\ lastOp = "set_sample_rate")
        => sample_rate(self) = LastProposed

\* C2 witness: an unfixed analyzer renegotiated from 8000 to 16000.
C2_Witness ==
    /\ FixedRate = None
    /\ lastOp = "set_sample_rate"
    /\ Len(proposed) >= 2
    /\ proposed[Len(proposed) - 1] = 8000
    /\ LastProposed = 16000
    /\ sample_rate(self) = 16000

\* C3: before the first set_sample_rate call sample_rate returns 0, with or
\* without a fixed rate given at construction.
C3_ZeroBeforeNegotiation ==
    ~Negotiated => sample_rate(self) = 0

\* C3 witness: a fixed-rate analyzer that has ingested audio and was never
\* negotiated.
C3_Witness ==
    /\ FixedRate = Some(8000)
    /\ ~Negotiated
    /\ self._audio_buffer # << >>
    /\ sample_rate(self) = 0

\* C4: set_sample_rate(p) called twice in a row leaves sample_rate at its
\* value after the first of the two calls.
C4_Idempotent ==
    ( /\ lastOp = "set_sample_rate"
      /\ prevOp = "set_sample_rate"
      /\ Len(proposed) >= 2
      /\ LastProposed = proposed[Len(proposed) - 1] )
        => sample_rate(self) = sample_rate(before)

\* C4 witness: set_sample_rate(16000) twice in a row on an unfixed analyzer.
C4_Witness ==
    /\ FixedRate = None
    /\ lastOp = "set_sample_rate"
    /\ prevOp = "set_sample_rate"
    /\ proposed = << 16000, 16000 >>
    /\ sample_rate(self) = 16000

\* C5 (as stated, read on an analyzer without a fixed rate): once negotiated,
\* sample_rate keeps the value resolved by the first set_sample_rate call
\* after any later sequence of calls.
C5_StableAfterFirstCall ==
    (Negotiated /\ FixedRate = None) => sample_rate(self) = firstResolved[1]

\* C5 (amended): once negotiated, sample_rate keeps the value resolved by the
\* first set_sample_rate call through append_audio, analyze_end_of_turn and
\* clear, and through set_sample_rate calls that repeat the first proposed
\* rate; with a non-zero fixed rate it keeps it through every call.
C5_StableUnlessRenegotiated ==
    ( /\ Negotiated
      /\ \/ Truthy(FixedRate)
         \/ \A i \in 1..Len(proposed) : proposed[i] = proposed[1] )
        => sample_rate(self) = firstResolved[1]

\* C5 witness: an unfixed analyzer negotiated twice at 16000, then fed and
\* cleared.
C5_Witness ==
    /\ FixedRate = None
    /\ proposed = << 16000, 16000 >>
    /\ lastOp = "clear"
    /\ before._audio_buffer # << >>
    /\ sample_rate(self) = 16000

\* C6 (as stated): after any sequence of set_sample_rate calls sample_rate is
\* the fixed rate if one was given, otherwise the rate proposed by the most
\* recent call.
C6_LastCallDecides ==
    Negotiated =>
        sample_rate(self) = IF FixedRate # None THEN FixedRate[1]
                                                ELSE LastProposed

\* C7: set_sample_rate changes only the effective rate, leaving the rate
\* given at construction, speech_triggered and the ingestion state as they
\* were; no operation changes the rate given at construction.
C7_OnlyEffectiveRateChanges ==
    /\ lastOp = "set_sample_rate"
        => self = [before EXCEPT !._sample_rate = sample_rate(self)]
    /\ self._init_sample_rate = before._init_sample_rate

\* C7 witness: a renegotiation that changed the rate mid-utterance.
C7_Witness ==
    /\ lastOp = "set_sample_rate"
    /\ sample_rate(self) # sample_rate(before)
    /\ sample_rate(before) # 0
    /\ speech_triggered(self)
    /\ self._audio_buffer # << >>

\* C8: clear() leaves sample_rate and the rate fixed at construction as they
\* were and resets speech_triggered to false.
C8_ClearKeepsRates ==
    lastOp = "clear" =>
        /\ sample_rate(self) = sample_rate(before)
        /\ self._init_sample_rate = before._init_sample_rate
        /\ ~speech_triggered(self)

\* C8 witness: clear() on a negotiated analyzer that was mid-utterance.
C8_Witness ==
    /\ lastOp = "clear"
    /\ speech_triggered(before)
    /\ Len(before._audio_buffer) >= 2
    /\ sample_rate(self) = 16000

\* C9: speech_triggered is true only if a speech chunk was appended since
\* construction or the last clear(); it is false right after construction
\* and clear(), and set_sample_rate and property reads do not change it.
C9_TriggeredOnlyAfterSpeech ==
    /\ speech_triggered(self) => speechSeen
    /\ lastOp \in {"__init__", "clear"} => ~speech_triggered(self)
    /\ lastOp \in {"set_sample_rate", "read"}
        => speech_triggered(self) = speech_triggered(before)

\* C9 witness: a non-speech chunk, then the speech chunk that opens the turn.
C9_Witness ==
    /\ lastOp = "append_audio"
    /\ Len(self._audio_buffer) = 2
    /\ ~self._audio_buffer[1][2]
    /\ self._audio_buffer[2][2]
    /\ ~speech_triggered(before)
    /\ speech_triggered(self)

====
